---- MODULE Spec2Model ----
(***************************************************************************)
(* Model of the v2ex-api client (src/src/lib.rs): one Client shared by a   *)
(* number of endpoint calls.  Each call builds one request, executes it,   *)
(* updates the three rate-limit cells from the response headers, reads the *)
(* body and decodes it into the endpoint's response type.                  *)
(*                                                                         *)
(* Header values and formatted numbers are sequences of one-character      *)
(* strings, so that parsing and formatting are computed, not assumed.      *)
(***************************************************************************)
EXTENDS Integers, Sequences, FiniteSets, TLC

(* limit, remaining, reset: the three atomic cells of Client (lib.rs:13-15) *)
(* pc[c]:     where call c is in its endpoint method: "idle", "execute"    *)
(*            (awaiting execute), "set_limit", "set_remaining", "set_reset"*)
(*            (the three if-lets of set_rate), "bytes" (awaiting the       *)
(*            body), "decode", "done" (returned)                           *)
(* call[c]:   the endpoint method called and the request record passed     *)
(* sent[c]:   the requests the call has passed to execute                  *)
(* rsp[c]:    status and headers of the response the call received         *)
(* body[c]:   the body the call received                                   *)
(* result[c]: what the call returned                                       *)
(* stored[c]: the cells call c has stored into                             *)
(* lastWriter[k]: the call whose store into cell k is the latest, 0 if none*)
(* completed: the calls that have returned, in the order they returned     *)
VARIABLES limit, remaining, reset, pc, call, sent, rsp, body, result,
          stored, lastWriter, completed

vars == <<limit, remaining, reset, pc, call, sent, rsp, body, result,
          stored, lastWriter, completed>>

(* Bounds of the model *)
NumCalls == 2
MaxPage == 2

Calls == 1..NumCalls

(***************************************************************************)
(* Text and numbers                                                        *)
(***************************************************************************)
Digit == {"0", "1", "2", "3", "4", "5", "6", "7", "8", "9"}

DigitChars == <<"0", "1", "2", "3", "4", "5", "6", "7", "8", "9">>

DigitVal(ch) == (CHOOSE i \in 1..10 : DigitChars[i] = ch) - 1

(* The bytes HeaderValue::to_str accepts; "0x80" stands for a byte that is *)
(* not visible ASCII.                                                      *)
VisibleAscii == Digit \cup {"+", "-", " ", "a", "b", "c"}

RECURSIVE ToInt(_)
ToInt(d) ==
  IF d = <<>> THEN 0
  ELSE ToInt(SubSeq(d, 1, Len(d) - 1)) * 10 + DigitVal(d[Len(d)])

RECURSIVE StripZeros(_)
StripZeros(d) ==
  IF Len(d) > 1 /\ d[1] = "0" THEN StripZeros(Tail(d)) ELSE d

RECURSIVE LexLeq(_, _)
LexLeq(a, b) ==
  IF a = <<>> THEN TRUE
  ELSE IF DigitVal(a[1]) < DigitVal(b[1]) THEN TRUE
  ELSE IF DigitVal(a[1]) > DigitVal(b[1]) THEN FALSE
  ELSE LexLeq(Tail(a), Tail(b))

(* a <= b for two decimal magnitudes without leading zeros *)
LeqDigits(a, b) ==
  \/ Len(a) < Len(b)
  \/ Len(a) = Len(b) /\ LexLeq(a, b)

(* Display of an unsigned integer: its decimal digits *)
RECURSIVE ToDecimal(_)
ToDecimal(n) ==
  IF n < 10 THEN <<DigitChars[n + 1]>>
  ELSE Append(ToDecimal(n \div 10), DigitChars[(n % 10) + 1])

U16MaxDigits == <<"6", "5", "5", "3", "5">>
I64MaxDigits == <<"9", "2", "2", "3", "3", "7", "2", "0", "3", "6",
                  "8", "5", "4", "7", "7", "5", "8", "0", "7">>
I64MinDigits == <<"9", "2", "2", "3", "3", "7", "2", "0", "3", "6",
                  "8", "5", "4", "7", "7", "5", "8", "0", "8">>

None == [ok |-> FALSE]
Some(v) == [ok |-> TRUE, v |-> v]

(* str::parse for an integer type: an optional sign ("+" for every type,   *)
(* "-" for signed types only), then one or more decimal digits, and the    *)
(* value must lie in the type's range; anything else is an error.          *)
ParseInt(s, signed, maxPos, maxNeg) ==
  LET hasSign == Len(s) > 0 /\ (s[1] = "+" \/ (signed /\ s[1] = "-"))
      neg     == signed /\ Len(s) > 0 /\ s[1] = "-"
      digits  == IF hasSign THEN Tail(s) ELSE s
      mag     == StripZeros(digits)
  IN  IF digits = <<>> \/ (\E i \in 1..Len(digits) : digits[i] \notin Digit)
        THEN None
      ELSE IF ~LeqDigits(mag, IF neg THEN maxNeg ELSE maxPos)
        THEN None
      ELSE Some(IF neg THEN 0 - ToInt(mag) ELSE ToInt(mag))

ParseU16Wrapping(s) ==
  LET p == ParseInt(s, FALSE, I64MaxDigits, I64MaxDigits)
  IN  IF p.ok THEN Some(p.v % 65536) ELSE None

ParseU16(s) == ParseInt(s, FALSE, U16MaxDigits, U16MaxDigits)

ParseU64(s) == ParseInt(s, FALSE, I64MaxDigits, I64MaxDigits)

ParseI64(s) == ParseInt(s, TRUE, I64MaxDigits, I64MinDigits)

(* HeaderValue::to_str *)
ToStr(hv) ==
  IF \E i \in 1..Len(hv) : hv[i] \notin VisibleAscii THEN None ELSE Some(hv)

(***************************************************************************)
(* Rate-limit headers                                                      *)
(***************************************************************************)
HLimit == "X-Rate-Limit-Limit"
HRemaining == "X-Rate-Limit-Remaining"
HReset == "X-Rate-Limit-Reset"

HeaderNames == {HLimit, HRemaining, HReset}

(* HeaderMap::get: a header map is a function from the names it carries *)
Get(header, name) ==
  IF name \in DOMAIN header THEN Some(header[name]) ELSE None

(* The nested if-lets of set_rate for one header: get, to_str, parse *)
HeaderValue(header, name) ==
  LET hv == Get(header, name)
  IN  IF ~hv.ok THEN None
      ELSE LET v == ToStr(hv.v)
           IN  IF ~v.ok THEN None
               ELSE IF name = HReset THEN ParseI64(v.v) ELSE ParseU16(v.v)

(***************************************************************************)
(* Requests                                                                *)
(***************************************************************************)
V2EX_API_DOMAIN == "https://www.v2ex.com/api/v2"

Paginated == {"get_notifications", "get_node_topics", "get_topic_replies"}

Endpoints == {"get_notifications", "delete_notification", "get_member",
              "get_token", "post_token", "get_node", "get_node_topics",
              "get_topic", "get_topic_replies"}

NoReq == [unit |-> TRUE]

Pages == 0..MaxPage

(* The request records a caller can pass, per endpoint *)
GetNotificationsReq == {[page |-> p] : p \in Pages}
DeleteNotificationReq == {[notification_id |-> i] : i \in {1, 27}}
PostTokenReq == {[scope |-> "Regular", expiration |-> "Day30"],
                 [scope |-> "Everything", expiration |-> "Day180"]}
GetNodeReq == {[node_name |-> "rust"]}
GetNodeTopicsReq == {[node_name |-> "rust", page |-> p] : p \in Pages}
GetTopicReq == {[topic_id |-> 1029068]}
GetTopicRepliesReq == {[topic_id |-> 1029068, page |-> p] : p \in Pages}

ReqsOf(ep) ==
  CASE ep = "get_notifications"   -> GetNotificationsReq
    [] ep = "delete_notification" -> DeleteNotificationReq
    [] ep = "get_member"          -> {NoReq}
    [] ep = "get_token"           -> {NoReq}
    [] ep = "post_token"          -> PostTokenReq
    [] ep = "get_node"            -> GetNodeReq
    [] ep = "get_node_topics"     -> GetNodeTopicsReq
    [] ep = "get_topic"           -> GetTopicReq
    [] ep = "get_topic_replies"   -> GetTopicRepliesReq

ScopeAsStr(scope) ==
  CASE scope = "Everything" -> "everything"
    [] scope = "Regular"    -> "regular"

ExpirationAsStr(e) ==
  CASE e = "Day30"  -> "2592000"
    [] e = "Day60"  -> "5184000"
    [] e = "Day90"  -> "7776000"
    [] e = "Day180" -> "15552000"

CoercePageIdentity(page) == page

(* let mut page = req.page; if page <= 0 { page = 1 } *)
CoercePage(page) == IF page <= 0 THEN 1 ELSE page

NoQuery == <<>>
NoBody == [kind |-> "none"]

PageQuery(page) == <<"p", ToDecimal(CoercePage(page))>>

(* The request each endpoint method builds: method, URL (domain and path   *)
(* pieces as format! joins them), query pairs and body.                    *)
BuildRequest(ep, rq) ==
  CASE ep = "get_notifications" ->
         [method |-> "GET", url |-> <<V2EX_API_DOMAIN, "/notifications">>,
          query |-> PageQuery(rq.page), body |-> NoBody]
    [] ep = "delete_notification" ->
         [method |-> "DELETE",
          url |-> <<V2EX_API_DOMAIN, "/notifications/",
                    ToDecimal(rq.notification_id)>>,
          query |-> NoQuery, body |-> NoBody]
    [] ep = "get_member" ->
         [method |-> "GET", url |-> <<V2EX_API_DOMAIN, "/member">>,
          query |-> NoQuery, body |-> NoBody]
    [] ep = "get_token" ->
         [method |-> "GET", url |-> <<V2EX_API_DOMAIN, "/token">>,
          query |-> NoQuery, body |-> NoBody]
    [] ep = "post_token" ->
         [method |-> "POST", url |-> <<V2EX_API_DOMAIN, "/tokens">>,
          query |-> NoQuery,
          body |-> [kind |-> "json", scope |-> ScopeAsStr(rq.scope),
                    expiration |-> ExpirationAsStr(rq.expiration)]]
    [] ep = "get_node" ->
         [method |-> "GET",
          url |-> <<V2EX_API_DOMAIN, "/nodes/", rq.node_name>>,
          query |-> NoQuery, body |-> NoBody]
    [] ep = "get_node_topics" ->
         [method |-> "GET",
          url |-> <<V2EX_API_DOMAIN, "/nodes/", rq.node_name, "/topics">>,
          query |-> PageQuery(rq.page), body |-> NoBody]
    [] ep = "get_topic" ->
         [method |-> "GET",
          url |-> <<V2EX_API_DOMAIN, "/topics/", ToDecimal(rq.topic_id)>>,
          query |-> NoQuery, body |-> NoBody]
    [] ep = "get_topic_replies" ->
         [method |-> "GET",
          url |-> <<V2EX_API_DOMAIN, "/topics/", ToDecimal(rq.topic_id),
                    "/replies">>,
          query |-> PageQuery(rq.page), body |-> NoBody]

(***************************************************************************)
(* Response bodies and their decoding                                      *)
(***************************************************************************)
(* A body is either not a JSON object, or a JSON object described by its   *)
(* members: success ("absent", "true", "false", "other"), message          *)
(* ("absent", "string", "null") and result ("absent", "null", "valid",     *)
(* "invalid", where valid means: decodes into the endpoint's payload).     *)
NotJson == [json |-> FALSE]

JsonObject(s, m, r) ==
  [json |-> TRUE, success |-> s, message |-> m, result |-> r]

(* Response types that flatten Status {success, message} *)
HasStatus(ep) == ep \notin {"get_member", "post_token"}

(* Response types with a result member (none of them optional) *)
HasResult(ep) == ep \notin {"get_notifications", "delete_notification"}

Pending == [kind |-> "pending"]
Ok(success) == [kind |-> "ok", success |-> success]
Err(cause) == [kind |-> "err", cause |-> cause]

(* serde_json::from_slice into the endpoint's response type *)
Decode(ep, b) ==
  IF ~b.json THEN Err("decode")
  ELSE IF b.success \notin {"true", "false"} THEN Err("decode")
  ELSE IF HasStatus(ep) /\ b.message # "string" THEN Err("decode")
  ELSE IF HasResult(ep) /\ b.result # "valid" THEN Err("decode")
  ELSE Ok(b.success = "true")

(***************************************************************************)
(* State                                                                   *)
(***************************************************************************)
NoCall == [endpoint |-> "none"]
NoRsp == [status |-> 0]
NoBytes == [json |-> FALSE, none |-> TRUE]

CellNames == {"limit", "remaining", "reset"}

HeaderOf(k) ==
  CASE k = "limit"     -> HLimit
    [] k = "remaining" -> HRemaining
    [] k = "reset"     -> HReset

CellSwapped(k) ==
  CASE k = "limit"     -> limit
    [] k = "remaining" -> reset
    [] k = "reset"     -> remaining

(* Client::limit, Client::remaining, Client::reset *)
Cell(k) ==
  CASE k = "limit"     -> limit
    [] k = "remaining" -> remaining
    [] k = "reset"     -> reset

ClientNewMax == limit = 65535 /\ remaining = 65535 /\ reset = 0

(* Client::new: the three cells start at 0 *)
ClientNew == limit = 0 /\ remaining = 0 /\ reset = 0

Init ==
  /\ ClientNew
  /\ pc = [c \in Calls |-> "idle"]
  /\ call = [c \in Calls |-> NoCall]
  /\ sent = [c \in Calls |-> <<>>]
  /\ rsp = [c \in Calls |-> NoRsp]
  /\ body = [c \in Calls |-> NoBytes]
  /\ result = [c \in Calls |-> Pending]
  /\ stored = [c \in Calls |-> {}]
  /\ lastWriter = [k \in CellNames |-> 0]
  /\ completed = <<>>

cells == <<limit, remaining, reset>>

(* The call returns r to its caller *)
Return(c, r) ==
  /\ pc' = [pc EXCEPT ![c] = "done"]
  /\ result' = [result EXCEPT ![c] = r]
  /\ completed' = Append(completed, c)

(***************************************************************************)
(* One endpoint call: every endpoint method has the same five steps        *)
(***************************************************************************)
(* The method up to its first await: coerce the page, format the URL,      *)
(* build the request (build()? returns the error) and start execute.       *)
Invoke(c, ep, rq, buildOk) ==
  /\ pc[c] = "idle"
  /\ call' = [call EXCEPT ![c] = [endpoint |-> ep, req |-> rq]]
  /\ IF buildOk
       THEN /\ sent' = [sent EXCEPT ![c] = Append(@, BuildRequest(ep, rq))]
            /\ pc' = [pc EXCEPT ![c] = "execute"]
            /\ UNCHANGED <<result, completed>>
       ELSE /\ Return(c, Err("build"))
            /\ UNCHANGED sent
  /\ UNCHANGED <<cells, rsp, body, stored, lastWriter>>

ExecuteFailsRetry(c) ==
  /\ pc[c] = "execute"
  /\ sent' = [sent EXCEPT ![c] = Append(@, @[1])]
  /\ UNCHANGED <<cells, pc, call, rsp, body, result, stored, lastWriter,
                 completed>>

(* execute(req).await? with a transport failure: the error is returned *)
ExecuteFails(c) ==
  /\ pc[c] = "execute"
  /\ Return(c, Err("transport"))
  /\ UNCHANGED <<cells, call, sent, rsp, body, stored, lastWriter>>

ExecuteReturnsNoSetRate(c, r) ==
  /\ pc[c] = "execute"
  /\ rsp' = [rsp EXCEPT ![c] = r]
  /\ pc' = [pc EXCEPT ![c] = "bytes"]
  /\ UNCHANGED <<cells, call, sent, body, result, stored, lastWriter,
                 completed>>

(* execute(req).await? with a response r (status and headers): set_rate    *)
(* runs next                                                               *)
ExecuteReturns(c, r) ==
  /\ pc[c] = "execute"
  /\ rsp' = [rsp EXCEPT ![c] = r]
  /\ pc' = [pc EXCEPT ![c] = "set_limit"]
  /\ UNCHANGED <<cells, call, sent, body, result, stored, lastWriter,
                 completed>>

Wrote(c, k) ==
  /\ stored' = [stored EXCEPT ![c] = @ \cup {k}]
  /\ lastWriter' = [lastWriter EXCEPT ![k] = c]

SetLimitOrReturn(c) ==
  /\ pc[c] = "set_limit"
  /\ LET v == HeaderValue(rsp[c].headers, HLimit)
     IN  IF v.ok
           THEN /\ limit' = v.v /\ Wrote(c, "limit")
                /\ pc' = [pc EXCEPT ![c] = "set_remaining"]
           ELSE /\ UNCHANGED <<limit, stored, lastWriter>>
                /\ pc' = [pc EXCEPT ![c] = "bytes"]
  /\ UNCHANGED <<remaining, reset, call, sent, rsp, body, result, completed>>

(* set_rate, first if-let: self.limit.store *)
SetLimit(c) ==
  /\ pc[c] = "set_limit"
  /\ LET v == HeaderValue(rsp[c].headers, HLimit)
     IN  IF v.ok
           THEN limit' = v.v /\ Wrote(c, "limit")
           ELSE UNCHANGED <<limit, stored, lastWriter>>
  /\ pc' = [pc EXCEPT ![c] = "set_remaining"]
  /\ UNCHANGED <<remaining, reset, call, sent, rsp, body, result, completed>>

SetRemainingFromLimitHeader(c) ==
  /\ pc[c] = "set_remaining"
  /\ LET v == HeaderValue(rsp[c].headers, HLimit)
     IN  IF v.ok
           THEN remaining' = v.v /\ Wrote(c, "remaining")
           ELSE UNCHANGED <<remaining, stored, lastWriter>>
  /\ pc' = [pc EXCEPT ![c] = "set_reset"]
  /\ UNCHANGED <<limit, reset, call, sent, rsp, body, result, completed>>

(* set_rate, second if-let: self.remaining.store *)
SetRemaining(c) ==
  /\ pc[c] = "set_remaining"
  /\ LET v == HeaderValue(rsp[c].headers, HRemaining)
     IN  IF v.ok
           THEN remaining' = v.v /\ Wrote(c, "remaining")
           ELSE UNCHANGED <<remaining, stored, lastWriter>>
  /\ pc' = [pc EXCEPT ![c] = "set_reset"]
  /\ UNCHANGED <<limit, reset, call, sent, rsp, body, result, completed>>

(* set_rate, third if-let: self.reset.store; then rsp.bytes() is awaited *)
SetReset(c) ==
  /\ pc[c] = "set_reset"
  /\ LET v == HeaderValue(rsp[c].headers, HReset)
     IN  IF v.ok
           THEN reset' = v.v /\ Wrote(c, "reset")
           ELSE UNCHANGED <<reset, stored, lastWriter>>
  /\ pc' = [pc EXCEPT ![c] = "bytes"]
  /\ UNCHANGED <<limit, remaining, call, sent, rsp, body, result, completed>>

(* rsp.bytes().await? fails: the error is returned *)
BytesFails(c) ==
  /\ pc[c] = "bytes"
  /\ Return(c, Err("body"))
  /\ UNCHANGED <<cells, call, sent, rsp, body, stored, lastWriter>>

(* rsp.bytes().await? yields the body b *)
BytesReturns(c, b) ==
  /\ pc[c] = "bytes"
  /\ body' = [body EXCEPT ![c] = b]
  /\ pc' = [pc EXCEPT ![c] = "decode"]
  /\ UNCHANGED <<cells, call, sent, rsp, result, stored, lastWriter,
                 completed>>

(* serde_json::from_slice(&bytes)? and Ok(body) *)
DecodeBody(c) ==
  /\ pc[c] = "decode"
  /\ Return(c, Decode(call[c].endpoint, body[c]))
  /\ UNCHANGED <<cells, call, sent, rsp, body, stored, lastWriter>>

RECURSIVE Without(_, _)
Without(s, c) ==
  IF s = <<>> THEN <<>>
  ELSE IF Head(s) = c THEN Without(Tail(s), c)
  ELSE <<Head(s)>> \o Without(Tail(s), c)

(* The caller is finished with the call's result and may call again *)
Drop(c) ==
  /\ pc[c] = "done"
  /\ pc' = [pc EXCEPT ![c] = "idle"]
  /\ call' = [call EXCEPT ![c] = NoCall]
  /\ sent' = [sent EXCEPT ![c] = <<>>]
  /\ rsp' = [rsp EXCEPT ![c] = NoRsp]
  /\ body' = [body EXCEPT ![c] = NoBytes]
  /\ result' = [result EXCEPT ![c] = Pending]
  /\ stored' = [stored EXCEPT ![c] = {}]
  /\ lastWriter' = [k \in CellNames |->
                      IF lastWriter[k] = c THEN 0 ELSE lastWriter[k]]
  /\ completed' = Without(completed, c)
  /\ UNCHANGED cells

(***************************************************************************)
(* Inputs: what callers pass and what the remote service answers           *)
(***************************************************************************)
Response(status, header) == [status |-> status, headers |-> header]

H600 == [n \in HeaderNames |->
           CASE n = HLimit     -> <<"6", "0", "0">>
             [] n = HRemaining -> <<"5", "9", "9">>
             [] n = HReset     -> <<"3", "6", "0", "0">>]

H120 == [n \in HeaderNames |->
           CASE n = HLimit     -> <<"1", "2", "0">>
             [] n = HRemaining -> <<"0">>
             [] n = HReset     -> <<"-", "5">>]

(* Every header present, none of them parseable: above the u16 range,     *)
(* not a number, above the i64 range                                       *)
HBad == [n \in HeaderNames |->
           CASE n = HLimit     -> <<"6", "5", "5", "3", "6">>
             [] n = HRemaining -> <<"a", "b", "c">>
             [] n = HReset     -> I64MinDigits]

HOnlyRemaining == [n \in {HRemaining} |-> <<"5", "9", "8">>]

HNone == [n \in {} |-> <<>>]

(* limit and reset parseable, remaining negative *)
HLimitReset == [n \in HeaderNames |->
           CASE n = HLimit     -> <<"+", "7">>
             [] n = HRemaining -> <<"-", "1">>
             [] n = HReset     -> <<"0", "3", "5", "9", "9">>]

(* only limit parseable: remaining empty, reset below the i64 range *)
HOnlyLimit == [n \in HeaderNames |->
           CASE n = HLimit     -> <<"6", "5", "5", "3", "5">>
             [] n = HRemaining -> <<>>
             [] n = HReset     -> <<"-">> \o I64MinDigits \o <<"0">>]

(* only reset parseable: limit not visible ASCII, remaining with a space *)
HOnlyReset == [n \in HeaderNames |->
           CASE n = HLimit     -> <<"6", "0x80">>
             [] n = HRemaining -> <<"5", " ", "9">>
             [] n = HReset     -> <<"-", "0">>]

(* limit and remaining parseable, reset a lone sign *)
HLimitRemaining == [n \in {HLimit, HRemaining, HReset} |->
           CASE n = HLimit     -> <<"0", "0", "7">>
             [] n = HRemaining -> <<"6", "5", "5", "3", "5">>
             [] n = HReset     -> <<"+">>]

(* remaining and reset parseable, limit absent *)
HRemainingReset == [n \in {HRemaining, HReset} |->
           CASE n = HRemaining -> <<"+", "0">>
             [] n = HReset     -> <<"3", "5", "9", "9">>]

ConcResponses == {Response(200, H600), Response(429, H120),
                  Response(404, HBad), Response(200, HOnlyRemaining),
                  Response(200, HLimitReset)}

SeqResponses == {Response(200, H600), Response(429, H120),
                 Response(404, HBad), Response(200, HOnlyRemaining),
                 Response(500, HNone), Response(200, HLimitReset),
                 Response(403, HOnlyLimit), Response(200, HOnlyReset),
                 Response(200, HLimitRemaining),
                 Response(401, HRemainingReset)}

ConcBodies == {JsonObject("true", "string", "valid"), NotJson}

SeqBodies == {JsonObject("true", "string", "valid"),
              JsonObject("true", "absent", "valid"),
              JsonObject("true", "string", "absent"),
              JsonObject("false", "string", "absent"),
              JsonObject("false", "string", "null"),
              JsonObject("true", "string", "invalid"),
              JsonObject("other", "string", "valid"),
              NotJson}

ConcCalls == {[endpoint |-> "get_notifications", req |-> [page |-> 1]]}

AllCalls == UNION {{[endpoint |-> ep, req |-> rq] : rq \in ReqsOf(ep)} :
                     ep \in Endpoints}

(***************************************************************************)
(* Specifications                                                          *)
(***************************************************************************)
(* Spec: the calls run concurrently on one Client, each call once *)
Next ==
  \/ \E c \in Calls, i \in ConcCalls, ok \in BOOLEAN :
       Invoke(c, i.endpoint, i.req, ok)
  \/ \E c \in Calls : ExecuteFails(c)
  \/ \E c \in Calls, r \in ConcResponses : ExecuteReturns(c, r)
  \/ \E c \in Calls : SetLimit(c)
  \/ \E c \in Calls : SetRemaining(c)
  \/ \E c \in Calls : SetReset(c)
  \/ \E c \in Calls : BytesFails(c)
  \/ \E c \in Calls, b \in ConcBodies : BytesReturns(c, b)
  \/ \E c \in Calls : DecodeBody(c)

Spec == Init /\ [][Next]_vars

(* SpecSeq: a caller that awaits each call before it makes the next one,   *)
(* with every endpoint, every request record and every response            *)
NoneInFlight == \A d \in Calls : pc[d] = "idle"

NextSeq ==
  \/ \E c \in Calls, i \in AllCalls, ok \in BOOLEAN :
       NoneInFlight /\ Invoke(c, i.endpoint, i.req, ok)
  \/ \E c \in Calls : ExecuteFails(c)
  \/ \E c \in Calls, r \in SeqResponses : ExecuteReturns(c, r)
  \/ \E c \in Calls : SetLimit(c)
  \/ \E c \in Calls : SetRemaining(c)
  \/ \E c \in Calls : SetReset(c)
  \/ \E c \in Calls : BytesFails(c)
  \/ \E c \in Calls, b \in SeqBodies : BytesReturns(c, b)
  \/ \E c \in Calls : DecodeBody(c)
  \/ \E c \in Calls : Drop(c)

SpecSeq == Init /\ [][NextSeq]_vars

(***************************************************************************)
(* What a header text denotes, stated without the parser: the spellings of *)
(* a number are its decimal digits, optionally zero-padded, with an        *)
(* optional "+" (or "-" for a negative number, or for zero in a signed     *)
(* cell).                                                                  *)
(***************************************************************************)
SampleValues == {0, 7, 120, 598, 599, 600, 3599, 3600, 65535, 0 - 5}

InType(k, n) == k = "reset" \/ n \in 0..65535

Abs(n) == IF n < 0 THEN 0 - n ELSE n

Spellings(k, n) ==
  LET signs == IF n < 0 THEN {<<"-">>}
               ELSE IF n = 0 /\ k = "reset" THEN {<<>>, <<"+">>, <<"-">>}
               ELSE {<<>>, <<"+">>}
      pads  == {<<>>, <<"0">>, <<"0", "0">>}
  IN  {sg \o pd \o ToDecimal(Abs(n)) : sg \in signs, pd \in pads}

(* The sample values the header of cell k denotes in a header map: empty   *)
(* when the header is absent or its text is no number of the cell's type   *)
DenotedBy(header, k) ==
  IF HeaderOf(k) \notin DOMAIN header THEN {}
  ELSE {n \in SampleValues :
          InType(k, n) /\ header[HeaderOf(k)] \in Spellings(k, n)}

HeaderMaps == {r.headers : r \in ConcResponses \cup SeqResponses}

DenotedTable == [h \in HeaderMaps |-> [k \in CellNames |-> DenotedBy(h, k)]]

Denoted(header, k) == DenotedTable[header][k]

Parseable(header, k) == Denoted(header, k) # {}

ParseableCells(header) == {k \in CellNames : Parseable(header, k)}

HasResponse(c) == rsp[c] # NoRsp

(***************************************************************************)
(* Properties                                                              *)
(***************************************************************************)
Returned(c) == pc[c] = "done"

(* C1: when a call of any endpoint has returned, its response carried all  *)
(* three rate-limit headers with integer values and no other call has run  *)
(* since, limit(), remaining() and reset() equal exactly those three       *)
(* header values.                                                          *)
C1_AllThreeHeaders ==
  \A c \in Calls :
    (/\ Returned(c)
     /\ HasResponse(c)
     /\ ParseableCells(rsp[c].headers) = CellNames
     /\ \A d \in Calls \ {c} : pc[d] = "idle")
    => \A k \in CellNames : Denoted(rsp[c].headers, k) = {Cell(k)}

C1_Witness ==
  \E c \in Calls :
    /\ Returned(c)
    /\ call[c].endpoint = "get_topic_replies"
    /\ result[c].kind = "ok"
    /\ rsp[c].headers = H120
    /\ limit = 120 /\ remaining = 0 /\ reset = 0 - 5

(* The header texts the claim C2 names as not parsing into a cell's type *)
NonNumeric == {<<"a", "b", "c">>, <<>>}
OutOfU16 == {<<"6", "5", "5", "3", "6">>, <<"-", "1">>}
OutOfI64 == {I64MinDigits}

Unparseable(header, k) ==
  \/ HeaderOf(k) \notin DOMAIN header
  \/ header[HeaderOf(k)] \in
       NonNumeric \cup (IF k = "reset" THEN OutOfI64 ELSE OutOfU16)

(* C2: no step of a call changes a cell whose header the call's response   *)
(* omits, or carries with a text that is not a number of the cell's type   *)
(* (not numeric, out of the u16 range for limit and remaining, out of the  *)
(* i64 range for reset): the cell is neither zeroed nor wrapped.           *)
C2_UnparseableLeavesCell ==
  [][\A c \in Calls : \A k \in CellNames :
       (/\ pc'[c] # pc[c]
        /\ rsp'[c] # NoRsp
        /\ Unparseable(rsp'[c].headers, k))
       => Cell(k)' = Cell(k)]_vars

C2_Witness ==
  \E c \in Calls :
    /\ Returned(c)
    /\ HasResponse(c)
    /\ rsp[c].headers = HBad
    /\ limit = 600 /\ remaining = 599 /\ reset = 3600

IsNotificationsWith600(c) ==
  /\ call[c].endpoint = "get_notifications"
  /\ HasResponse(c)
  /\ rsp[c].headers = H600

(* C3 as stated: when a notifications-list call that received 600, 599 and *)
(* 3600 returns, the cells read 600, 599 and 3600, whatever other calls    *)
(* are in flight.                                                          *)
C3_Original ==
  [][\A c \in Calls :
       (pc[c] # "done" /\ pc'[c] = "done" /\ IsNotificationsWith600(c))
       => (limit' = 600 /\ remaining' = 599 /\ reset' = 3600)]_vars

(* C3, amended: a notifications-list call that received 600, 599 and 3600  *)
(* and has returned leaves the cells at 600, 599 and 3600 as long as no    *)
(* other call has stored into a cell after it, however many other calls    *)
(* are in flight.                                                          *)
C3_UnlessOverwritten ==
  \A c \in Calls :
    (/\ Returned(c)
     /\ IsNotificationsWith600(c)
     /\ \A k \in CellNames : lastWriter[k] = c)
    => (Cell("limit") = 600 /\ Cell("remaining") = 599 /\ Cell("reset") = 3600)

C3_Witness ==
  \E c, d \in Calls :
    /\ c # d
    /\ Returned(c)
    /\ IsNotificationsWith600(c)
    /\ \A k \in CellNames : lastWriter[k] = c
    /\ pc[d] = "bytes"
    /\ rsp[d].headers = HBad
    /\ limit = 600 /\ remaining = 599 /\ reset = 3600

(* The positions in completed of the calls whose response had a parseable  *)
(* header for cell k                                                       *)
CompletedWith(k) ==
  {i \in 1..Len(completed) :
     /\ HasResponse(completed[i])
     /\ Parseable(rsp[completed[i]].headers, k)}

Last(S) == CHOOSE i \in S : \A j \in S : j <= i

Quiescent == \A c \in Calls : pc[c] \in {"idle", "done"}

(* C4 as stated, read where it is most favourable (no call is in flight):  *)
(* each cell holds the value of the most recently completed call whose     *)
(* response had a parseable header for it.                                 *)
C4_Original ==
  Quiescent =>
    \A k \in CellNames :
      CompletedWith(k) # {} =>
        Denoted(rsp[completed[Last(CompletedWith(k))]].headers, k) = {Cell(k)}

(* C4, amended: each cell holds the value parsed from the response of the  *)
(* call that stored into it last (the stores happen when the response      *)
(* headers arrive, before the body is read), and 0 when no call has        *)
(* stored: per cell the writes are last-write-wins in store order, not in  *)
(* completion order.                                                       *)
C4_LastStoreWins ==
  \A k \in CellNames :
    IF lastWriter[k] = 0
      THEN Cell(k) = 0
      ELSE /\ HasResponse(lastWriter[k])
           /\ Denoted(rsp[lastWriter[k]].headers, k) = {Cell(k)}

(* Two calls completed, and the one that completed first stored last *)
C4_Witness ==
  \E c, d \in Calls :
    /\ Len(completed) >= 2
    /\ completed[1] = d /\ completed[2] = c
    /\ HasResponse(c) /\ HasResponse(d)
    /\ rsp[c].headers = H600 /\ rsp[d].headers = H120
    /\ \A k \in CellNames : lastWriter[k] = d
    /\ limit = 120 /\ remaining = 0 /\ reset = 0 - 5

BodyFailed(c) ==
  Returned(c) /\ result[c] \in {Err("body"), Err("decode")}

(* C5: whatever the status code, by the time a call reads the body it has  *)
(* stored every parseable header of the response; a body that cannot be    *)
(* read or decoded makes the call return a failure, and the stores stay:   *)
(* a cell the call wrote last still holds the header's value.              *)
C5_UpdateBeforeBody ==
  \A c \in Calls :
    /\ (pc[c] \in {"bytes", "decode"} \/ BodyFailed(c)) =>
         /\ stored[c] = ParseableCells(rsp[c].headers)
         /\ \A k \in stored[c] :
              lastWriter[k] = c => Denoted(rsp[c].headers, k) = {Cell(k)}
    /\ (Returned(c) /\ body[c] = NotJson) => result[c] = Err("decode")

C5_Witness ==
  \E c \in Calls :
    /\ result[c] = Err("decode")
    /\ rsp[c].status = 429
    /\ stored[c] = CellNames
    /\ limit = 120 /\ remaining = 0 /\ reset = 0 - 5

(* A response body the remote service sends for a failure *)
FailureBody == JsonObject("false", "string", "absent")

(* C6: a call of any endpoint that received a well-formed success:false    *)
(* body returns Ok with a status that indicates failure.                   *)
C6_FailureStatusIsOk ==
  \A c \in Calls :
    (Returned(c) /\ body[c] = FailureBody) => result[c] = Ok(FALSE)

EffectivePage(page) == IF page <= 0 THEN 1 ELSE page

Requested(c) == sent[c] # <<>>

(* C7: a paginated endpoint requests p=1 for a page input <= 0 and the     *)
(* input itself for a page input >= 1, and no step changes the request     *)
(* record of a call that is under way.                                     *)
C7_PageCoercion ==
  /\ [](\A c \in Calls :
          (Requested(c) /\ call[c].endpoint \in Paginated) =>
            LET query == sent[c][1].query
            IN  /\ Len(query) = 2
                /\ query[1] = "p"
                /\ \A i \in 1..Len(query[2]) : query[2][i] \in Digit
                /\ ToInt(query[2]) = EffectivePage(call[c].req.page))
  /\ [][\A c \in Calls :
          (pc[c] # "idle" /\ pc'[c] # "idle") => call'[c] = call[c]]_vars

C7_Witness ==
  \E c \in Calls :
    /\ Returned(c)
    /\ result[c].kind = "ok"
    /\ call[c] = [endpoint |-> "get_node_topics",
                  req |-> [node_name |-> "rust", page |-> 0]]
    /\ sent[c] = <<[method |-> "GET",
                    url |-> <<V2EX_API_DOMAIN, "/nodes/", "rust", "/topics">>,
                    query |-> <<"p", <<"1">>>>, body |-> NoBody]>>

(* C8: a call issues at most one request, none when the request cannot be  *)
(* built and exactly one otherwise, also after a transport failure, a      *)
(* non-2xx response or a body that does not decode; delete_notification    *)
(* with identifier 1 issues one DELETE of /notifications/1 without a body. *)
C8_OneRequest ==
  \A c \in Calls :
    /\ Len(sent[c]) <= 1
    /\ (pc[c] = "idle" \/ result[c] = Err("build")) => Len(sent[c]) = 0
    /\ (pc[c] # "idle" /\ result[c] # Err("build")) => Len(sent[c]) = 1
    /\ (/\ Requested(c)
        /\ call[c].endpoint = "delete_notification"
        /\ call[c].req.notification_id = 1)
       => sent[c] = <<[method |-> "DELETE",
                       url |-> <<V2EX_API_DOMAIN, "/notifications/", <<"1">>>>,
                       query |-> NoQuery, body |-> NoBody]>>

C8_Witness ==
  \E c \in Calls :
    /\ Returned(c)
    /\ result[c] = Err("decode")
    /\ rsp[c].status = 404
    /\ call[c].endpoint = "delete_notification"
    /\ call[c].req.notification_id = 1
    /\ Len(sent[c]) = 1

SetRateSteps == {"set_limit", "set_remaining", "set_reset"}

StepCell(p) ==
  CASE p = "set_limit"     -> "limit"
    [] p = "set_remaining" -> "remaining"
    [] p = "set_reset"     -> "reset"

(* C9: each of the three steps of set_rate writes its own cell with the    *)
(* header's value when that header is present and parseable, and changes   *)
(* no cell otherwise; when set_rate is over the call has written exactly   *)
(* the cells whose headers were parseable, whatever the other headers were.*)
C9_IndependentCells ==
  [][\A c \in Calls :
       (pc[c] \in SetRateSteps /\ pc'[c] # pc[c]) =>
         /\ \A k \in CellNames :
              IF k = StepCell(pc[c]) /\ Parseable(rsp[c].headers, k)
                THEN Denoted(rsp[c].headers, k) = {Cell(k)'}
                ELSE Cell(k)' = Cell(k)
         /\ pc'[c] \in SetRateSteps \cup {"bytes"}
         /\ pc'[c] = "bytes" => stored'[c] = ParseableCells(rsp[c].headers)]_vars

(* limit and remaining were written by an earlier call, this call had only *)
(* a parseable reset header and wrote only reset                           *)
C9_Witness ==
  \E c \in Calls :
    /\ Returned(c)
    /\ HasResponse(c)
    /\ rsp[c].headers = HOnlyReset
    /\ stored[c] = {"reset"}
    /\ limit = 7 /\ remaining = 65535 /\ reset = 0

NoResponseFailure(c) ==
  Returned(c) /\ result[c] \in {Err("build"), Err("transport")}

Fresh == \A c \in Calls : ~HasResponse(c) \/ ParseableCells(rsp[c].headers) = {}

(* C10: a step of a call that has received no response changes no cell,    *)
(* and if it ends the call the call returns a failure; while no call has   *)
(* received a response with a parseable header the three cells are 0.      *)
C10_NoResponseNoUpdate ==
  /\ [](Fresh => (limit = 0 /\ remaining = 0 /\ reset = 0))
  /\ [](\A c \in Calls : NoResponseFailure(c) => stored[c] = {})
  /\ [][\A c \in Calls :
          (pc'[c] # pc[c] /\ rsp'[c] = NoRsp /\ pc'[c] # "idle") =>
            /\ cells' = cells
            /\ pc'[c] = "done" => result'[c].kind = "err"]_vars

(* One call failed in transport, another received only unparseable headers *)
C10_Witness ==
  \E c, d \in Calls :
    /\ result[c] = Err("transport")
    /\ Returned(d)
    /\ HasResponse(d)
    /\ rsp[d].headers = HBad
    /\ limit = 0 /\ remaining = 0 /\ reset = 0

====
